---- MODULE Spec2Model ----
(***************************************************************************)
(* JSON-RPC 2.0 time server (server.js, express ^4.18.2).                  *)
(*                                                                         *)
(* One inbound POST /rpc message is followed through the middleware chain: *)
(* Receive (the message arrives; for a POST the CORS middleware only sets  *)
(* headers and calls next()), JsonParser (express.json()), PostRpc (the    *)
(* route handler).  No error middleware is registered, so an error of the  *)
(* body parser is answered by express's final handler.  On the values      *)
(* modelled no statement of the handler outside the inner try raises, so   *)
(* in Spec the outer catch is not reached; SpecFault adds the runs in      *)
(* which such a statement does raise.                                      *)
(* JavaScript values are tagged records [t, v] so                          *)
(* that typeof, ===, truthiness, default parameters and the dropping of    *)
(* undefined-valued keys by JSON serialisation are modelled as the         *)
(* language defines them.  Numeric ids are taken inside the safe-integer   *)
(* range, where JSON.parse/JSON.stringify preserve them.                   *)
(*                                                                         *)
(* The module holds seven specifications over one set of variables; each   *)
(* leaves the variables of the others at their initial values:             *)
(*   Spec        the server's pipeline for one inbound message             *)
(*   SpecFault   one message through the same pipeline, with the runs in   *)
(*               which a statement of the handler outside the inner try    *)
(*               raises                                                    *)
(*   SpecPure    routeMethod and validateRPCResponse applied to inputs     *)
(*   SpecBuild   createRPCRequest called repeatedly while the clock runs   *)
(*   SpecClient  the browser client: callRPC, callRPCWithRetry and STATE   *)
(*   SpecStats   callRPC interleaved with clearHistory                     *)
(*   SpecHistory addToHistory and clearHistory applied while the clock runs *)
(***************************************************************************)
EXTENDS Integers, Sequences, FiniteSets, TLC

VARIABLES
    pc,        \* where the message is: "idle", "json", "route", "done"
    payload,   \* the raw body of the message
    body,      \* req.body
    env,       \* the environment the route handler ran in
    res,       \* the reply: status, kind of body, body
    routed,    \* the number of calls of routeMethod for the message
    invoked,   \* the handler that was run for the message, or "none"
    replies,   \* the number of replies sent for the message
    fault,     \* SpecFault: where the handler's run raised, or "none"
    call,      \* SpecPure: the function applied and its arguments
    out,       \* SpecPure: what the function returned or threw
    now,       \* the client's clock, Date.now()
    built,     \* SpecBuild: the calls of createRPCRequest and their results
    State,     \* the client's STATE object
    calls,     \* the activations of callRPC, in the order they were made
    retry      \* the activations of callRPCWithRetry

serverVars == <<pc, payload, body, env, res, routed, invoked, replies, fault>>
pureVars   == <<call, out>>
buildVars  == <<now, built>>
clientVars == <<State, calls, retry>>

vars == <<serverVars, pureVars, buildVars, clientVars>>

---------------------------------------------------------------------------
(* Bounds of the model *)

\* longest batch array that is sent
MaxBatch == 2

\* number of calls of createRPCRequest that are followed
MaxBuilds == 2

\* number of clock ticks that are followed
MaxTicks == 2

\* number of activations of callRPC that are followed
MaxCalls == 2

\* largest maxRetries that callRPCWithRetry is called with
MaxAttempts == 2

\* number of milliseconds the clock advances while the history is filled
MaxEpochs == 1

---------------------------------------------------------------------------
(* JavaScript values *)

Undefined == [t |-> "undefined", v |-> 0]
Null      == [t |-> "null", v |-> 0]
Num(n)    == [t |-> "number", v |-> n]
Str(s)    == [t |-> "string", v |-> s]
Bool(b)   == [t |-> "boolean", v |-> b]
Obj(f)    == [t |-> "object", v |-> f]
Arr(s)    == [t |-> "array", v |-> s]

\* the object with no own keys, {}
NoKeys == [k \in {} |-> Undefined]
EmptyObject == Obj(NoKeys)

\* typeof x
Typeof(x) == IF x.t \in {"null", "object", "array"} THEN "object" ELSE x.t

\* Array.isArray(x)
IsArray(x) == x.t = "array"

\* !x
Falsy(x) ==
    \/ x.t \in {"undefined", "null"}
    \/ x = Num(0)
    \/ x = Str("")
    \/ x = Bool(FALSE)

\* o.k, and the destructuring { k } = o : undefined when o has no such key
Get(o, k) == IF o.t = "object" /\ k \in DOMAIN o.v THEN o.v[k] ELSE Undefined

\* a default parameter or destructuring default: used when the value is undefined
Default(x, d) == IF x = Undefined THEN d ELSE x

\* JSON.stringify as res.json applies it to an object of depth at most two:
\* keys whose value is undefined are left out
DropUndefined(o) ==
    IF o.t = "object"
    THEN Obj([k \in {j \in DOMAIN o.v : o.v[j] # Undefined} |-> o.v[k]])
    ELSE o

ToJSON(o) ==
    LET top == DropUndefined(o)
    IN  IF top.t = "object"
        THEN Obj([k \in DOMAIN top.v |-> DropUndefined(top.v[k])])
        ELSE top

---------------------------------------------------------------------------
(* Initial values of the variables *)

\* no function has been applied
NoCall  == [fn |-> "none", args |-> <<>>]
Pending == [done |-> FALSE, threw |-> FALSE, value |-> Undefined, handler |-> "none"]

\* Date.now() when the page is loaded, in milliseconds
ClockStart == 1000

\* const STATE = { ... }
State0 == [isLoading |-> FALSE, requestHistory |-> <<>>, errorCount |-> 0,
           successCount |-> 0, totalRequests |-> 0]

\* the activations of callRPCWithRetry that are followed
Retryers == {1}

NoRetry == [pc |-> "idle", method |-> "", maxRetries |-> 0, attempt |-> 0,
            sleeps |-> 0, lastError |-> Undefined, value |-> Undefined]

ServerIdle ==
    /\ pc = "idle"
    /\ payload = [kind |-> "nobody", value |-> Undefined]
    /\ body = Undefined
    /\ env = [outcome |-> "none", now |-> 0, zone |-> [name |-> "", offset |-> 0]]
    /\ res = [status |-> 0, kind |-> "pending", body |-> Undefined]
    /\ routed = 0
    /\ invoked = "none"
    /\ replies = 0
    /\ fault = "none"

PureIdle == call = NoCall /\ out = Pending

BuildIdle == now = ClockStart /\ built = <<>>

ClientIdle == State = State0 /\ calls = <<>> /\ retry = [r \in Retryers |-> NoRetry]

---------------------------------------------------------------------------
(* Decimal formatting, String(n).padStart(w, '0') *)

Digit(d) ==
    CASE d = 0 -> "0" [] d = 1 -> "1" [] d = 2 -> "2" [] d = 3 -> "3"
      [] d = 4 -> "4" [] d = 5 -> "5" [] d = 6 -> "6" [] d = 7 -> "7"
      [] d = 8 -> "8" [] d = 9 -> "9"

\* String(n) for a natural number
RECURSIVE StringOf(_)
StringOf(n) == IF n < 10 THEN Digit(n) ELSE StringOf(n \div 10) \o Digit(n % 10)

RECURSIVE PadStart(_, _)
PadStart(s, w) == IF Len(s) >= w THEN s ELSE PadStart("0" \o s, w)

Abs(n) == IF n < 0 THEN -n ELSE n

\* Date.prototype.toISOString for a non-negative epoch time in milliseconds
ToISOString(ms) ==
    LET days == ms \div 86400000
        rem  == ms % 86400000
        z    == days + 719468
        era  == z \div 146097
        doe  == z - era * 146097
        yoe  == (doe - doe \div 1460 + doe \div 36524 - doe \div 146096) \div 365
        doy  == doe - (365 * yoe + yoe \div 4 - yoe \div 100)
        mp   == (5 * doy + 2) \div 153
        d    == doy - (153 * mp + 2) \div 5 + 1
        m    == IF mp < 10 THEN mp + 3 ELSE mp - 9
        y    == yoe + era * 400 + (IF m <= 2 THEN 1 ELSE 0)
    IN  PadStart(StringOf(y), 4) \o "-" \o PadStart(StringOf(m), 2) \o "-"
          \o PadStart(StringOf(d), 2) \o "T"
          \o PadStart(StringOf(rem \div 3600000), 2) \o ":"
          \o PadStart(StringOf((rem \div 60000) % 60), 2) \o ":"
          \o PadStart(StringOf((rem \div 1000) % 60), 2) \o "."
          \o PadStart(StringOf(rem % 1000), 3) \o "Z"

---------------------------------------------------------------------------
(* Response constructors *)

createResponse(result, id) ==
    Obj([k \in {"jsonrpc", "result", "id"} |->
            CASE k = "jsonrpc" -> Str("2.0")
              [] k = "result"  -> result
              [] k = "id"      -> Default(id, Null)])

\* createErrorResponse that does not pass the id on
createErrorResponse_NoId(code, message, data, id) ==
    LET d == Default(data, Null)
        errKeys == IF d # Null THEN {"code", "message", "data"} ELSE {"code", "message"}
        err == [k \in errKeys |->
                   CASE k = "code"    -> code
                     [] k = "message" -> message
                     [] k = "data"    -> d]
    IN  Obj([k \in {"jsonrpc", "error", "id"} |->
                CASE k = "jsonrpc" -> Str("2.0")
                  [] k = "error"   -> Obj(err)
                  [] k = "id"      -> Null])

createErrorResponse(code, message, data, id) ==
    LET d == Default(data, Null)
        errKeys == IF d # Null THEN {"code", "message", "data"} ELSE {"code", "message"}
        err == [k \in errKeys |->
                   CASE k = "code"    -> code
                     [] k = "message" -> message
                     [] k = "data"    -> d]
    IN  Obj([k \in {"jsonrpc", "error", "id"} |->
                CASE k = "jsonrpc" -> Str("2.0")
                  [] k = "error"   -> Obj(err)
                  [] k = "id"      -> Default(id, Null)])


---------------------------------------------------------------------------
(* The environment a handler runs in: the clock, the host's time zone, and *)
(* whether the handler's execution raises.                                 *)

\* epoch times in milliseconds
Clock == {0, 1234567890}

\* Intl time-zone name and Date.getTimezoneOffset() in minutes
Zones == {[name |-> "UTC", offset |-> 0],
          [name |-> "Asia/Kolkata", offset |-> -330],
          [name |-> "America/New_York", offset |-> 300]}

Outcomes == {"returns", "throws"}

Envs == [outcome : Outcomes, now : Clock, zone : Zones]

NoEnv == [outcome |-> "none", now |-> 0, zone |-> [name |-> "", offset |-> 0]]

\* the Error object a failing handler raises: it has a message, and neither
\* code nor data
HandlerFault == Obj("message" :> Str("handler failure"))

---------------------------------------------------------------------------
(* Handlers *)

getCurrentTime(e) == Obj("timestamp" :> Str(ToISOString(e.now)))

getTimeZone(e) ==
    LET offsetMs      == e.zone.offset
        offsetHours   == Abs(offsetMs) \div 60
        offsetMinutes == Abs(offsetMs) % 60
        sign          == IF offsetMs > 0 THEN "-" ELSE "+"
        offset        == sign \o PadStart(StringOf(offsetHours), 2) \o ":"
                              \o PadStart(StringOf(offsetMinutes), 2)
    IN  Obj(("timezone" :> Str(e.zone.name)) @@ ("offset" :> Str(offset)))

getUnixTimestamp(e) == Obj("timestamp" :> Num(e.now \div 1000))

Registered == {"getCurrentTime", "getTimeZone", "getUnixTimestamp"}

\* the call of a registered handler, in environment e
Invoke(name, e) ==
    IF e.outcome = "throws"
    THEN [threw |-> TRUE, value |-> HandlerFault, handler |-> name]
    ELSE [threw |-> FALSE, handler |-> name,
          value |-> CASE name = "getCurrentTime"   -> getCurrentTime(e)
                      [] name = "getTimeZone"      -> getTimeZone(e)
                      [] name = "getUnixTimestamp" -> getUnixTimestamp(e)]

Thrown(code, message, data) ==
    Obj([k \in {"code", "message", "data"} |->
            CASE k = "code" -> Num(code)
              [] k = "message" -> Str(message)
              [] k = "data" -> Str(data)])

\* routeMethod whose MethodNotFound does not name the method
routeMethod_NoName(method, params, e) ==
    IF Typeof(method) # "string"
    THEN [threw |-> TRUE, handler |-> "none",
          value |-> Thrown(-32600, "Invalid Request", "Method must be a string")]
    ELSE IF method.v \in Registered
    THEN Invoke(method.v, e)
    ELSE [threw |-> TRUE, handler |-> "none",
          value |-> Thrown(-32601, "Method not found", "Unknown method")]

\* routeMethod without the typeof check: every value falls into the switch
routeMethod_NoTypeCheck(method, params, e) ==
    IF Typeof(method) = "string" /\ method.v \in Registered
    THEN Invoke(method.v, e)
    ELSE [threw |-> TRUE, handler |-> "none",
          value |-> Thrown(-32601, "Method not found",
                           IF Typeof(method) = "string"
                           THEN "Unknown method: " \o method.v
                           ELSE "Unknown method")]

\* routeMethod(method, params): what it returns or throws, and the handler
\* it invoked ("none" when it invoked no handler)
routeMethod(method, params, e) ==
    IF Typeof(method) # "string"
    THEN [threw |-> TRUE, handler |-> "none",
          value |-> Thrown(-32600, "Invalid Request", "Method must be a string")]
    ELSE IF method.v \in Registered
    THEN Invoke(method.v, e)
    ELSE [threw |-> TRUE, handler |-> "none",
          value |-> Thrown(-32601, "Method not found", "Unknown method: " \o method.v)]

---------------------------------------------------------------------------
(* Replies *)

\* res.status(status).json(obj)
Json(status, obj) == [status |-> status, kind |-> "json", body |-> ToJSON(obj)]

\* res.status(status).send()
SendEmpty(status) == [status |-> status, kind |-> "empty", body |-> Undefined]

\* the reply of express's final handler to an error passed to next(err):
\* the error's status and an HTML page
FinalHandler(status) == [status |-> status, kind |-> "html", body |-> Undefined]

NoRes == [status |-> 0, kind |-> "pending", body |-> Undefined]

\* the number of replies a run of the handler that ended with r has sent
Sends(r) == IF r.kind = "pending" THEN 0 ELSE 1

---------------------------------------------------------------------------
(* The route handler app.post('/rpc') *)

\* isNotification written with a loose test (id == null): null passes for absent
isNotification_Loose(id) == id = Undefined \/ id = Null

isNotification(id) == id = Undefined

\* the try branch after routeMethod returned result
OnResult(result, id) ==
    IF ~isNotification(id)
    THEN Json(200, createResponse(result, id))
    ELSE SendEmpty(204)

\* the catch branch without its notification test: the error is always sent
OnMethodError_AlwaysAnswers(methodError, id) ==
    Json(200, createErrorResponse(Get(methodError, "code"),
                                  Get(methodError, "message"),
                                  Get(methodError, "data"), id))

\* the catch branch that takes "no response" for sending nothing at all
OnMethodError_Silent(methodError, id) ==
    IF ~isNotification(id)
    THEN Json(200, createErrorResponse(Get(methodError, "code"),
                                       Get(methodError, "message"),
                                       Get(methodError, "data"), id))
    ELSE NoRes

\* catch (methodError)
OnMethodError(methodError, id) ==
    IF ~isNotification(id)
    THEN Json(200, createErrorResponse(Get(methodError, "code"),
                                       Get(methodError, "message"),
                                       Get(methodError, "data"), id))
    ELSE SendEmpty(204)

\* the version check written with == : the number 2 equals the string "2.0"
VersionOk_Loose(jsonrpc) == jsonrpc = Str("2.0") \/ jsonrpc = Num(2)

\* the version check
VersionOk(jsonrpc) == jsonrpc = Str("2.0")

\* the method check
MethodMissing(method) == method = Undefined

\* the object-shape check
NotAnObject(b) == Falsy(b) \/ Typeof(b) # "object" \/ IsArray(b)

\* a reply that ends the handler before routeMethod is reached
Rejected(data, id) ==
    [res |-> Json(400, createErrorResponse(Num(-32600), Str("Invalid Request"),
                                           Str(data), id)),
     routed |-> 0, handler |-> "none", sends |-> 1]

\* the handler with the method check ahead of the version check
handleObject_MethodFirst(b, e) ==
    LET jsonrpc == Get(b, "jsonrpc")
        method  == Get(b, "method")
        params  == Default(Get(b, "params"), EmptyObject)
        id      == Get(b, "id")
    IN  IF MethodMissing(method)
        THEN Rejected("method is required", id)
        ELSE IF ~VersionOk(jsonrpc)
        THEN Rejected("jsonrpc must be \"2.0\"", id)
        ELSE LET r == routeMethod(method, params, e)
                 reply == IF r.threw THEN OnMethodError(r.value, id)
                                     ELSE OnResult(r.value, id)
             IN  [res |-> reply, routed |-> 1, handler |-> r.handler,
                  sends |-> Sends(reply)]

\* the handler from the destructuring of the body on: the version check,
\* the method check, the call of routeMethod and the reply
handleObject(b, e) ==
    LET jsonrpc == Get(b, "jsonrpc")
        method  == Get(b, "method")
        params  == Default(Get(b, "params"), EmptyObject)
        id      == Get(b, "id")
    IN  IF ~VersionOk(jsonrpc)
        THEN Rejected("jsonrpc must be \"2.0\"", id)
        ELSE IF MethodMissing(method)
        THEN Rejected("method is required", id)
        ELSE LET r == routeMethod(method, params, e)
                 reply == IF r.threw THEN OnMethodError(r.value, id)
                                     ELSE OnResult(r.value, id)
             IN  [res |-> reply, routed |-> 1, handler |-> r.handler,
                  sends |-> Sends(reply)]

\* a handler that unwraps a batch and serves its first element
postRpc_Batch(b, e) ==
    IF IsArray(b) /\ Len(b.v) > 0
    THEN handleObject(b.v[1], e)
    ELSE IF NotAnObject(b)
    THEN Rejected("Request must be a JSON object", Undefined)
    ELSE handleObject(b, e)

\* the whole handler on req.body = b in environment e: the reply, the
\* number of calls of routeMethod, the handler that ran, and the number of
\* replies sent
postRpc(b, e) ==
    IF NotAnObject(b)
    THEN Rejected("Request must be a JSON object", Undefined)
    ELSE handleObject(b, e)

---------------------------------------------------------------------------
(* The handler's outer catch *)

\* the Error a statement of the handler raises: it has a message
PipelineFault == Obj("message" :> Str("pipeline failure"))

\* where a run of the handler raises: "entry", at its first statements,
\* before any check; "reply", in the first call of res.json or res.send
Faults == {"entry", "reply"}

\* the outer catch answering with the error's own code, as the inner one does
OnUnexpected_ErrCode(err) ==
    Json(500, createErrorResponse(Get(err, "code"), Str("Internal error"),
                                  Get(err, "message"), Null))

\* catch (err)
OnUnexpected(err) ==
    Json(500, createErrorResponse(Num(-32603), Str("Internal error"),
                                  Get(err, "message"), Null))

\* the whole handler on req.body = b in environment e when it raises at f.
\* A reply that raises in a 400 branch or in the inner catch reaches the
\* outer catch; one that raises in the inner try is caught by the inner
\* catch as methodError, whose own reply is then the one sent.
postRpcFaulty(b, e, f) ==
    LET r == postRpc(b, e)
    IN  IF f = "entry"
        THEN [res |-> OnUnexpected(PipelineFault), routed |-> 0,
              handler |-> "none", sends |-> 1]
        ELSE IF r.routed = 0
        THEN [r EXCEPT !.res = OnUnexpected(PipelineFault)]
        ELSE LET m == routeMethod(Get(b, "method"),
                                  Default(Get(b, "params"), EmptyObject), e)
             IN  IF m.threw
                 THEN [r EXCEPT !.res = OnUnexpected(PipelineFault)]
                 ELSE [r EXCEPT !.res = OnMethodError(PipelineFault, Get(b, "id"))]

---------------------------------------------------------------------------
(* The JSON body parser, express.json() of express ^4.18.2 (strict mode) *)

NoBody    == [kind |-> "nobody", value |-> Undefined]
EmptyText == [kind |-> "empty", value |-> Undefined]
Malformed == [kind |-> "malformed", value |-> Undefined]
Text(v)   == [kind |-> "text", value |-> v]

\* the parser's outcome on a raw payload: the value of req.body, or a
\* syntax error (status 400) handed to next(err)
jsonParser(p) ==
    CASE p.kind = "nobody"    -> [ok |-> TRUE, body |-> EmptyObject]
      [] p.kind = "empty"     -> [ok |-> TRUE, body |-> EmptyObject]
      [] p.kind = "malformed" -> [ok |-> FALSE, body |-> Undefined]
      [] p.kind = "text"      ->
            IF p.value.t \in {"object", "array"}
            THEN [ok |-> TRUE, body |-> p.value]
            ELSE [ok |-> FALSE, body |-> Undefined]

---------------------------------------------------------------------------
(* Inbound payloads *)

Absent == Undefined

JsonrpcVals == {Absent, Str("2.0"), Str("1.0"), Num(2)}
MethodVals  == {Absent, Null, Num(42), Str("doesNotExist")} \cup {Str(m) : m \in Registered}
ParamsVals  == {Absent, EmptyObject, Null}
IdVals      == {Absent, Null, Num(0), Num(3), Str(""), Str("abc")}

\* the object { jsonrpc: j, method: m, params: p, id: i }, a key left out
\* when its value is Absent
Request(j, m, p, i) ==
    DropUndefined(Obj([k \in {"jsonrpc", "method", "params", "id"} |->
        CASE k = "jsonrpc" -> j
          [] k = "method"  -> m
          [] k = "params"  -> p
          [] k = "id"      -> i]))

Requests == {Request(j, m, p, i) : j \in JsonrpcVals, m \in MethodVals,
                                   p \in ParamsVals, i \in IdVals}

BatchElems == {Request(Str("2.0"), Str("getCurrentTime"), EmptyObject, Num(3)),
               Request(Str("2.0"), Str("getUnixTimestamp"), Absent, Absent)}

Batches == {Arr(s) : s \in UNION {[1..n -> BatchElems] : n \in 0..MaxBatch}}

Primitives == {Num(42), Str("getCurrentTime"), Null, Bool(TRUE)}

RawPayloads == {NoBody, EmptyText, Malformed}
                 \cup {Text(v) : v \in Requests \cup Batches \cup Primitives}

---------------------------------------------------------------------------
(* The state machine of one inbound message *)

Init == ServerIdle /\ PureIdle /\ BuildIdle /\ ClientIdle

\* a POST /rpc message arrives
Receive(p) ==
    /\ pc \in {"idle", "done"}
    /\ pc' = "json"
    /\ payload' = p
    /\ body' = Undefined
    /\ env' = NoEnv
    /\ res' = NoRes
    /\ routed' = 0
    /\ invoked' = "none"
    /\ replies' = 0
    /\ fault' = "none"
    /\ UNCHANGED <<pureVars, buildVars, clientVars>>

\* app.use(express.json()): the body is parsed and the route handler is
\* next, or the syntax error goes to the final handler
JsonParser ==
    /\ pc = "json"
    /\ LET r == jsonParser(payload)
       IN  IF r.ok
           THEN /\ body' = r.body
                /\ pc' = "route"
                /\ UNCHANGED <<res, replies>>
           ELSE /\ res' = FinalHandler(400)
                /\ replies' = replies + 1
                /\ pc' = "done"
                /\ UNCHANGED body
    /\ UNCHANGED <<payload, env, routed, invoked, fault>>
    /\ UNCHANGED <<pureVars, buildVars, clientVars>>

\* app.post('/rpc', ...)
PostRpc(e) ==
    /\ pc = "route"
    /\ pc' = "done"
    /\ env' = e
    /\ UNCHANGED <<payload, body, fault>>
    /\ \E r \in {postRpc(body, e)} :
           /\ res' = r.res
           /\ routed' = r.routed
           /\ invoked' = r.handler
           /\ replies' = replies + r.sends
    /\ UNCHANGED <<pureVars, buildVars, clientVars>>

Next ==
    \/ \E p \in RawPayloads : Receive(p)
    \/ JsonParser
    \/ \E e \in Envs : PostRpc(e)

Spec == Init /\ [][Next]_vars

\* app.post('/rpc', ...) when a statement outside the inner try raises at f
PostRpcFault(e, f) ==
    /\ pc = "route"
    /\ pc' = "done"
    /\ env' = e
    /\ fault' = f
    /\ UNCHANGED <<payload, body>>
    /\ \E r \in {postRpcFaulty(body, e, f)} :
           /\ res' = r.res
           /\ routed' = r.routed
           /\ invoked' = r.handler
           /\ replies' = replies + r.sends
    /\ UNCHANGED <<pureVars, buildVars, clientVars>>

\* the handler returns: it is one synchronous function, so once it is
\* entered it runs to its end.  Of the steps of FaultNext only PostRpc and
\* PostRpcFault take pc from "route" to "done", and one of them is enabled
\* whenever pc = "route".
HandlerReturns == pc = "route" /\ pc' = "done"

\* the one message SpecFault follows arrives
Arrive(p) == pc = "idle" /\ Receive(p)

FaultNext ==
    \/ \E p \in RawPayloads : Arrive(p)
    \/ JsonParser
    \/ \E e \in Envs : PostRpc(e)
    \/ \E e \in Envs, f \in Faults : PostRpcFault(e, f)

\* the middleware chain runs on: a message that was received is parsed and
\* a message that was parsed is handled
SpecFault == Init /\ [][FaultNext]_vars /\ WF_vars(JsonParser) /\ WF_pc(HandlerReturns)

---------------------------------------------------------------------------
(* The client library: request builder and response validator *)

\* createRPCRequest(method, params = {}, id = null) when Date.now() is t
createRPCRequest(method, params, id, t) ==
    LET i == Default(id, Null)
    IN  Obj([k \in {"jsonrpc", "method", "params", "id"} |->
            CASE k = "jsonrpc" -> Str("2.0")
              [] k = "method"  -> method
              [] k = "params"  -> Default(params, EmptyObject)
              [] k = "id"      -> IF Falsy(i) THEN Num(t) ELSE i])

\* k in o
In(k, o) == o.t = "object" /\ k \in DOMAIN o.v

\* throw new Error(message)
Throw(message) == [threw |-> TRUE, value |-> Str(message)]

\* validateRPCResponse(response): it returns true or throws an Error; the
\* read of response.error.code raises a TypeError when error is null
validateRPCResponse(response) ==
    IF Falsy(response) \/ Typeof(response) # "object"
    THEN Throw("Invalid response: not an object")
    ELSE IF Get(response, "jsonrpc") # Str("2.0")
    THEN Throw("Invalid response: jsonrpc version must be \"2.0\"")
    ELSE IF ~In("result", response) /\ ~In("error", response)
    THEN Throw("Invalid response: must contain either result or error")
    ELSE IF In("error", response)
    THEN LET error == Get(response, "error")
         IN  IF error.t \in {"null", "undefined"}
             THEN Throw("Cannot read properties of null (reading 'code')")
             ELSE IF Falsy(Get(error, "code")) \/ Falsy(Get(error, "message"))
             THEN Throw("Invalid error response: must contain code and message")
             ELSE [threw |-> FALSE, value |-> Bool(TRUE)]
    ELSE [threw |-> FALSE, value |-> Bool(TRUE)]

---------------------------------------------------------------------------
(* SpecPure: routeMethod and validateRPCResponse applied to inputs *)

DispatchMethods ==
    {Str(m) : m \in Registered \cup {"doesNotExist", "", "getcurrenttime", "toString"}}
      \cup {Num(42), Null, Undefined, Bool(TRUE), EmptyObject,
            Arr(<<>>), Arr(<<Str("getCurrentTime")>>)}

DispatchParams == {EmptyObject, Null}

\* error members of a response
ErrorVals ==
    {Absent, Null, Str("boom")}
      \cup {DropUndefined(Obj([k \in {"code", "message", "data"} |->
                CASE k = "code" -> c [] k = "message" -> m [] k = "data" -> d]))
             : c \in {Absent, Num(0), Num(-32601)},
               m \in {Absent, Str(""), Str("Method not found")},
               d \in {Absent, Str("Unknown method: doesNotExist")}}

ResultVals == {Absent, Null, Num(0), Obj("timestamp" :> Num(1))}

\* the values validateRPCResponse is applied to
Responses ==
    {Undefined, Null, Num(0), Str("2.0"), Arr(<<>>)}
      \cup {DropUndefined(Obj([k \in {"jsonrpc", "result", "error", "id"} |->
                CASE k = "jsonrpc" -> j [] k = "result" -> r
                  [] k = "error" -> x [] k = "id" -> Num(3)]))
             : j \in {Absent, Str("2.0"), Str("1.0"), Num(2)},
               r \in ResultVals, x \in ErrorVals}

PureCalls ==
    {[fn |-> "routeMethod", args |-> <<m, p, e>>]
        : m \in DispatchMethods, p \in DispatchParams, e \in Envs}
      \cup {[fn |-> "validateRPCResponse", args |-> <<r>>] : r \in Responses}

PureInit ==
    /\ call \in PureCalls
    /\ out = Pending
    /\ ServerIdle /\ BuildIdle /\ ClientIdle

ApplyRouteMethod ==
    /\ call.fn = "routeMethod" /\ ~out.done
    /\ LET r == routeMethod(call.args[1], call.args[2], call.args[3])
       IN  out' = [done |-> TRUE, threw |-> r.threw, value |-> r.value,
                   handler |-> r.handler]
    /\ UNCHANGED <<call, serverVars, buildVars, clientVars>>

ApplyValidate ==
    /\ call.fn = "validateRPCResponse" /\ ~out.done
    /\ LET r == validateRPCResponse(call.args[1])
       IN  out' = [done |-> TRUE, threw |-> r.threw, value |-> r.value,
                   handler |-> "none"]
    /\ UNCHANGED <<call, serverVars, buildVars, clientVars>>

PureNext == ApplyRouteMethod \/ ApplyValidate

SpecPure == PureInit /\ [][PureNext]_vars

---------------------------------------------------------------------------
(* SpecBuild: createRPCRequest called repeatedly while the clock runs *)

\* the arguments createRPCRequest is called with; Undefined is an argument
\* that is left out
BuildParams == {Undefined, EmptyObject}
BuildIds    == {Undefined, Null, Num(0), Num(7), Str(""), Str("abc")}

BuildInit ==
    /\ now = ClockStart
    /\ built = <<>>
    /\ ServerIdle /\ PureIdle /\ ClientIdle

\* a millisecond passes
Tick ==
    /\ now < ClockStart + MaxTicks
    /\ now' = now + 1
    /\ UNCHANGED <<built, serverVars, pureVars, clientVars>>

\* createRPCRequest(method, params, id) is called
Build(method, params, id) ==
    /\ Len(built) < MaxBuilds
    /\ built' = Append(built, [method |-> method, params |-> params, id |-> id,
                               request |-> createRPCRequest(method, params, id, now)])
    /\ UNCHANGED <<now, serverVars, pureVars, clientVars>>

BuildNext ==
    \/ Tick
    \/ \E params \in BuildParams, id \in BuildIds :
          Build(Str("getCurrentTime"), params, id)

SpecBuild == BuildInit /\ [][BuildNext]_vars

---------------------------------------------------------------------------
(* The client: what the network answers *)

\* the server's reply to the raw payload p when its handler runs in e
serve(p, e) ==
    LET r == jsonParser(p)
    IN  IF r.ok THEN postRpc(r.body, e).res ELSE FinalHandler(400)

\* the environments of the server the client talks to
ClientEnvs == {[outcome |-> o, now |-> 0, zone |-> [name |-> "UTC", offset |-> 0]]
                 : o \in Outcomes}

\* replies that do not come from this server's pipeline: a gateway's error
\* page, a 200 whose body is not JSON, a body carrying result and error
ForeignAnswers ==
    {[status |-> 500, kind |-> "html", body |-> Undefined],
     [status |-> 200, kind |-> "html", body |-> Undefined],
     [status |-> 200, kind |-> "json",
      body |-> Obj([k \in {"jsonrpc", "result", "error", "id"} |->
                 CASE k = "jsonrpc" -> Str("2.0")
                   [] k = "result"  -> Null
                   [] k = "error"   -> Obj(("code" :> Num(-32603))
                                            @@ ("message" :> Str("Internal error")))
                   [] k = "id"      -> Null])]}

\* what fetch can resolve with for the request that was sent
Answers(request) ==
    {serve(Text(ToJSON(request)), e) : e \in ClientEnvs} \cup ForeignAnswers

\* a client that takes every status for a success
ResponseOk_Always(status) == status \in 100..599

\* response.ok
ResponseOk(status) == status \in 200..299

\* response.statusText
StatusText(status) ==
    CASE status = 200 -> "OK"
      [] status = 204 -> "No Content"
      [] status = 400 -> "Bad Request"
      [] status = 500 -> "Internal Server Error"
      [] OTHER -> ""

---------------------------------------------------------------------------
(* The client: callRPC *)

\* the methods the page calls
ClientMethods == {"getUnixTimestamp", "doesNotExist"}

\* the length requestHistory is cut to
HistoryLimit == 50

\* an Error (or DOMException) with a name and a message
Err(name, message) == Obj(("name" :> Str(name)) @@ ("message" :> Str(message)))

\* addToHistory that removes the entry it has just pushed (pop for shift)
addToHistory_DropsNewest(st, method, request, response, success, t) ==
    LET historyEntry == [timestamp |-> ToISOString(t), method |-> method,
                         request |-> request, response |-> response,
                         success |-> success]
        pushed == Append(st.requestHistory, historyEntry)
    IN  [st EXCEPT !.requestHistory =
            IF Len(pushed) > HistoryLimit
            THEN SubSeq(pushed, 1, Len(pushed) - 1) ELSE pushed]

\* addToHistory(method, request, response, success) on STATE st at time t
addToHistory(st, method, request, response, success, t) ==
    LET historyEntry == [timestamp |-> ToISOString(t), method |-> method,
                         request |-> request, response |-> response,
                         success |-> success]
        pushed == Append(st.requestHistory, historyEntry)
    IN  [st EXCEPT !.requestHistory =
            IF Len(pushed) > HistoryLimit THEN Tail(pushed) ELSE pushed]

\* an activation of callRPC that has not been made
NoActivation ==
    [owner |-> 0, method |-> "", pc |-> "none", busy |-> FALSE, timer |-> "none",
     expiredAt |-> "none", request |-> Undefined, response |-> NoRes,
     parsed |-> FALSE, value |-> Undefined]

\* the activation is between the sending of its request and its completion
InFlight(a) == a.pc \in {"fetching", "reading"}

\* callRPC without the isLoading guard
callStart_NoGuard(st, cs, owner, method, t) ==
    [State |-> [st EXCEPT !.isLoading = TRUE, !.totalRequests = @ + 1],
     act |-> [NoActivation EXCEPT
                !.owner = owner, !.method = method,
                !.busy = \E c \in DOMAIN cs : InFlight(cs[c]),
                !.pc = "fetching", !.timer = "armed",
                !.request = createRPCRequest(Str(method), EmptyObject, Undefined, t)]]

\* callRPC that counts the request before it tests isLoading
callStart_CountsFirst(st, cs, owner, method, t) ==
    LET busy == \E c \in DOMAIN cs : InFlight(cs[c])
        counted == [st EXCEPT !.totalRequests = @ + 1]
    IN  IF st.isLoading
        THEN [State |-> counted,
              act |-> [NoActivation EXCEPT !.owner = owner, !.method = method,
                                           !.busy = busy, !.pc = "refused"]]
        ELSE [State |-> [counted EXCEPT !.isLoading = TRUE],
              act |-> [NoActivation EXCEPT
                         !.owner = owner, !.method = method, !.busy = busy,
                         !.pc = "fetching", !.timer = "armed",
                         !.request = createRPCRequest(Str(method), EmptyObject,
                                                      Undefined, t)]]

\* callRPC(methodName) up to its first await, called by owner (0 for the
\* page, r for callRPCWithRetry r): the guard, the counters, the request,
\* the timer and the fetch
callStart(st, cs, owner, method, t) ==
    LET busy == \E c \in DOMAIN cs : InFlight(cs[c])
    IN  IF st.isLoading
        THEN [State |-> st,
              act |-> [NoActivation EXCEPT !.owner = owner, !.method = method,
                                           !.busy = busy, !.pc = "refused"]]
        ELSE [State |-> [st EXCEPT !.isLoading = TRUE, !.totalRequests = @ + 1],
              act |-> [NoActivation EXCEPT
                         !.owner = owner, !.method = method, !.busy = busy,
                         !.pc = "fetching", !.timer = "armed",
                         !.request = createRPCRequest(Str(method), EmptyObject,
                                                      Undefined, t)]]

\* callRPC that resets isLoading at the end of try instead of in finally
Caught_NoFinally(st, a, error, t) ==
    LET counted == [st EXCEPT !.errorCount = @ + 1]
        logged  == addToHistory(counted, a.method, Null,
                                Obj("error" :> Get(error, "message")), FALSE, t)
    IN  [State |-> logged,
         act |-> [a EXCEPT !.pc = "threw", !.value = error]]

\* catch (error) and finally
Caught(st, a, error, t) ==
    LET counted == [st EXCEPT !.errorCount = @ + 1]
        logged  == addToHistory(counted, a.method, Null,
                                Obj("error" :> Get(error, "message")), FALSE, t)
    IN  [State |-> [logged EXCEPT !.isLoading = FALSE],
         act |-> [a EXCEPT !.pc = "threw", !.value = error]]

\* the statements after the body was parsed to data: validation, the
\* counters, the history, return, finally
Parsed(st, a, data, t) ==
    LET v == validateRPCResponse(data)
    IN  IF v.threw
        THEN Caught(st, a, Err("Error", v.value.v), t)
        ELSE IF ~Falsy(Get(data, "error"))
        THEN [State |-> [st EXCEPT !.errorCount = @ + 1, !.isLoading = FALSE],
              act |-> [a EXCEPT !.pc = "returned", !.value = data]]
        ELSE [State |-> [addToHistory([st EXCEPT !.successCount = @ + 1],
                                      a.method, a.request, data, TRUE, t)
                           EXCEPT !.isLoading = FALSE],
              act |-> [a EXCEPT !.pc = "returned", !.value = data]]

---------------------------------------------------------------------------
(* The client: callRPCWithRetry *)

\* the loop with "await callRPC(...)" in place of "return await callRPC(...)":
\* a successful attempt does not end it
RetryAfter_NoReturn(rt, a) ==
    IF rt.attempt < rt.maxRetries
    THEN [rt EXCEPT !.pc = "sleeping",
                    !.lastError = IF a.pc = "threw" THEN a.value ELSE @]
    ELSE [rt EXCEPT !.pc = "threw",
            !.value = Err("Error", "Failed after " \o StringOf(rt.maxRetries)
                                     \o " attempts")]

\* the loop that keeps the first error instead of the last
RetryAfter_FirstError(rt, a) ==
    LET kept == IF rt.lastError = Undefined THEN a.value ELSE rt.lastError
    IN  IF a.pc # "threw"
        THEN [rt EXCEPT !.pc = "returned", !.value = a.value]
        ELSE IF rt.attempt < rt.maxRetries
        THEN [rt EXCEPT !.pc = "sleeping", !.sleeps = @ + 1, !.lastError = kept]
        ELSE [rt EXCEPT !.pc = "threw", !.lastError = kept,
                !.value = Err("Error", "Failed after " \o StringOf(rt.maxRetries)
                                         \o " attempts: " \o Get(kept, "message").v)]

\* the loop that sleeps after every failed attempt, the last one too
RetryAfter_SleepsLast(rt, a) ==
    IF a.pc # "threw"
    THEN [rt EXCEPT !.pc = "returned", !.value = a.value]
    ELSE [rt EXCEPT !.pc = "sleeping", !.sleeps = @ + 1, !.lastError = a.value]

\* the loop after the awaited callRPC settled as activation a; sleeps counts
\* the calls of sleep
RetryAfter(rt, a) ==
    IF a.pc # "threw"
    THEN [rt EXCEPT !.pc = "returned", !.value = a.value]
    ELSE IF rt.attempt < rt.maxRetries
    THEN [rt EXCEPT !.pc = "sleeping", !.sleeps = @ + 1, !.lastError = a.value]
    ELSE [rt EXCEPT !.pc = "threw", !.lastError = a.value,
            !.value = Err("Error", "Failed after " \o StringOf(rt.maxRetries)
                                     \o " attempts: " \o Get(a.value, "message").v)]

\* the retry records after activation a settled or was refused
Resumed(rts, a) ==
    IF a.owner \in Retryers /\ a.pc \in {"refused", "returned", "threw"}
    THEN [rts EXCEPT ![a.owner] = RetryAfter(@, a)]
    ELSE rts

---------------------------------------------------------------------------
(* SpecClient: the steps of the page's event loop *)

ClientInit ==
    /\ State = State0
    /\ calls = <<>>
    /\ retry = [r \in Retryers |-> NoRetry]
    /\ now = ClockStart
    /\ built = <<>>
    /\ ServerIdle /\ PureIdle

\* the page calls callRPC(method)
DirectCall(method) ==
    /\ Len(calls) < MaxCalls
    /\ LET s == callStart(State, calls, 0, method, now)
       IN  /\ State' = s.State
           /\ calls' = Append(calls, s.act)
    /\ UNCHANGED <<retry, serverVars, pureVars, buildVars>>

\* fetch resolves for activation c with the answer a: the timer is
\* cleared, a status that is not ok is thrown, otherwise the body is awaited
FetchResolves(c, a) ==
    /\ calls[c].pc = "fetching"
    /\ LET got == [calls[c] EXCEPT !.timer = "cleared", !.response = a]
           s   == IF ~ResponseOk(a.status)
                  THEN Caught(State, got,
                              Err("Error", "HTTP Error: " \o StringOf(a.status)
                                             \o " " \o StatusText(a.status)), now)
                  ELSE [State |-> State, act |-> [got EXCEPT !.pc = "reading"]]
       IN  /\ State' = s.State
           /\ calls' = [calls EXCEPT ![c] = s.act]
           /\ retry' = Resumed(retry, s.act)
    /\ UNCHANGED <<serverVars, pureVars, buildVars>>

\* fetch rejects for activation c: the network failed
FetchRejects(c) ==
    /\ calls[c].pc = "fetching"
    /\ LET s == Caught(State, calls[c], Err("TypeError", "Failed to fetch"), now)
       IN  /\ State' = s.State
           /\ calls' = [calls EXCEPT ![c] = s.act]
           /\ retry' = Resumed(retry, s.act)
    /\ UNCHANGED <<serverVars, pureVars, buildVars>>

\* response.json() settles for activation c: the body has arrived
BodyArrives(c) ==
    /\ calls[c].pc = "reading"
    /\ LET a == [calls[c] EXCEPT !.parsed = TRUE]
           s == IF a.response.kind # "json"
                THEN Caught(State, a,
                            Err("SyntaxError", "Unexpected token < in JSON at position 0"),
                            now)
                ELSE Parsed(State, a, a.response.body, now)
       IN  /\ State' = s.State
           /\ calls' = [calls EXCEPT ![c] = s.act]
           /\ retry' = Resumed(retry, s.act)
    /\ UNCHANGED <<serverVars, pureVars, buildVars>>

\* the timers of a client whose activations share one AbortController: a
\* timer left armed by an activation that is over aborts the fetch that is
\* pending when it fires
TimeoutElapses_SharedController(c) ==
    /\ InFlight(calls[c]) \/ calls[c].timer = "armed"
    /\ calls[c].expiredAt = "none"
    /\ LET a == [calls[c] EXCEPT !.expiredAt = calls[c].pc,
                                 !.timer = IF @ = "armed" THEN "fired" ELSE @]
           marked == [calls EXCEPT ![c] = a]
           pending == {d \in DOMAIN calls : calls[d].pc = "fetching"}
       IN  IF calls[c].timer = "armed" /\ pending # {}
           THEN LET d == CHOOSE x \in pending : TRUE
                    s == Caught(State, marked[d],
                                Err("AbortError", "The user aborted a request."), now)
                IN  /\ State' = s.State
                    /\ calls' = [marked EXCEPT ![d] = s.act]
                    /\ retry' = Resumed(retry, s.act)
           ELSE /\ calls' = marked
                /\ UNCHANGED <<State, retry>>
    /\ UNCHANGED <<serverVars, pureVars, buildVars>>

\* CONFIG.TIMEOUT has passed since activation c armed its timer: a timer
\* that is still armed fires and aborts c's controller, which rejects c's
\* pending fetch with an AbortError.  (For an activation that is complete
\* and whose timer is cleared the passing of the time changes nothing.)
TimeoutElapses(c) ==
    /\ InFlight(calls[c]) \/ calls[c].timer = "armed"
    /\ calls[c].expiredAt = "none"
    /\ LET a == [calls[c] EXCEPT !.expiredAt = calls[c].pc,
                                 !.timer = IF @ = "armed" THEN "fired" ELSE @]
           aborts == calls[c].timer = "armed" /\ calls[c].pc = "fetching"
           s == IF aborts
                THEN Caught(State, a,
                            Err("AbortError", "The user aborted a request."), now)
                ELSE [State |-> State, act |-> a]
       IN  /\ State' = s.State
           /\ calls' = [calls EXCEPT ![c] = s.act]
           /\ retry' = IF aborts THEN Resumed(retry, s.act) ELSE retry
    /\ UNCHANGED <<serverVars, pureVars, buildVars>>

\* the loop when its body never runs (maxRetries < 1): lastError is still
\* undefined, and reading lastError.message for the final Error raises
NoAttempt(rt) ==
    [rt EXCEPT !.pc = "threw",
        !.value = Err("TypeError",
                      "Cannot read properties of undefined (reading 'message')")]

\* the page calls callRPCWithRetry(method, {}, maxRetries): the loop's
\* first attempt runs up to its await, or the loop is skipped
RetryStart(r, method, maxRetries) ==
    /\ retry[r].pc = "idle"
    /\ IF maxRetries < 1
       THEN /\ retry' = [retry EXCEPT ![r] =
                            NoAttempt([NoRetry EXCEPT !.method = method,
                                                      !.maxRetries = maxRetries])]
            /\ UNCHANGED <<State, calls>>
       ELSE /\ Len(calls) < MaxCalls
            /\ LET s  == callStart(State, calls, r, method, now)
                   rt == [NoRetry EXCEPT !.pc = "attempting", !.method = method,
                                         !.maxRetries = maxRetries, !.attempt = 1]
               IN  /\ State' = s.State
                   /\ calls' = Append(calls, s.act)
                   /\ retry' = Resumed([retry EXCEPT ![r] = rt], s.act)
    /\ UNCHANGED <<serverVars, pureVars, buildVars>>

\* sleep(CONFIG.RETRY_DELAY) ends: the next attempt runs up to its await
SleepEnds(r) ==
    /\ retry[r].pc = "sleeping"
    /\ Len(calls) < MaxCalls
    /\ LET s  == callStart(State, calls, r, retry[r].method, now)
           rt == [retry[r] EXCEPT !.pc = "attempting", !.attempt = @ + 1]
       IN  /\ State' = s.State
           /\ calls' = Append(calls, s.act)
           /\ retry' = Resumed([retry EXCEPT ![r] = rt], s.act)
    /\ UNCHANGED <<serverVars, pureVars, buildVars>>

ClientNext ==
    \/ \E m \in ClientMethods : DirectCall(m)
    \/ \E c \in DOMAIN calls : \E a \in Answers(calls[c].request) : FetchResolves(c, a)
    \/ \E c \in DOMAIN calls : FetchRejects(c)
    \/ \E c \in DOMAIN calls : BodyArrives(c)
    \/ \E c \in DOMAIN calls : TimeoutElapses(c)
    \/ \E r \in Retryers, m \in ClientMethods, n \in -1..MaxAttempts : RetryStart(r, m, n)
    \/ \E r \in Retryers : SleepEnds(r)

SpecClient == ClientInit /\ [][ClientNext]_vars

---------------------------------------------------------------------------
(* SpecStats: callRPC and clearHistory *)

\* clearHistory()
clearHistory(st) ==
    [st EXCEPT !.requestHistory = <<>>, !.errorCount = 0,
               !.successCount = 0, !.totalRequests = 0]

\* the page calls clearHistory()
ClearHistory ==
    /\ State' = clearHistory(State)
    /\ UNCHANGED <<calls, retry, serverVars, pureVars, buildVars>>

StatsNext ==
    \/ \E m \in ClientMethods : DirectCall(m)
    \/ \E c \in DOMAIN calls : \E a \in Answers(calls[c].request) : FetchResolves(c, a)
    \/ \E c \in DOMAIN calls : FetchRejects(c)
    \/ \E c \in DOMAIN calls : BodyArrives(c)
    \/ \E c \in DOMAIN calls : TimeoutElapses(c)
    \/ ClearHistory

SpecStats == ClientInit /\ [][StatsNext]_vars

---------------------------------------------------------------------------
(* SpecHistory: addToHistory applied again and again while the clock runs *)

\* addToHistory is called as callRPC's catch block calls it; call records
\* the history it was applied to and the time
Log ==
    /\ call' = [fn |-> "addToHistory", args |-> <<State.requestHistory, now>>]
    /\ out' = [Pending EXCEPT !.done = TRUE]
    /\ State' = addToHistory(State, "getUnixTimestamp", Null,
                             Obj("error" :> Str("Failed to fetch")), FALSE, now)
    /\ UNCHANGED <<calls, retry, buildVars, serverVars>>

\* a millisecond passes
EpochPasses ==
    /\ now < ClockStart + MaxEpochs
    /\ now' = now + 1
    /\ UNCHANGED <<built, serverVars, pureVars, clientVars>>

HistoryNext == Log \/ EpochPasses

SpecHistory == Init /\ [][HistoryNext]_vars

---------------------------------------------------------------------------
(* Vocabulary of the properties *)

\* the string s contains the string sub
Contains(s, sub) ==
    \E i \in 1..(Len(s) - Len(sub) + 1) : SubSeq(s, i, i + Len(sub) - 1) = sub

\* routeMethod has been applied; its method argument
Dispatched == call.fn = "routeMethod" /\ out.done
DMethod    == call.args[1]

\* validateRPCResponse has been applied; its argument
Validated == call.fn = "validateRPCResponse" /\ out.done
VArg      == call.args[1]

\* the activations of callRPC made by callRPCWithRetry r
Own(r) == {c \in DOMAIN calls : calls[c].owner = r}

\* the attempts of r that threw, and the place of attempt c among r's
Failures(r) == {c \in Own(r) : calls[c].pc = "threw"}
Nth(r, c)   == Cardinality({d \in Own(r) : d <= c})

\* the latest attempt of r
Latest(r) == CHOOSE c \in Own(r) : \A d \in Own(r) : d <= c

\* activation c completed without success: it threw, or it returned a
\* Response that carries an error
Unsuccessful(c) ==
    \/ calls[c].pc = "threw"
    \/ calls[c].pc = "returned" /\ ~Falsy(Get(calls[c].value, "error"))

\* addToHistory has been applied; the history it was applied to and the
\* time it was applied at
Logged    == call.fn = "addToHistory" /\ out.done
LogBefore == call.args[1]
LogTime   == call.args[2]

\* the activations that sent a request and completed
Completed == {c \in DOMAIN calls : calls[c].pc \in {"returned", "threw"}}

\* the activations that completed with a Response carrying a result
Succeeded ==
    {c \in Completed : calls[c].pc = "returned" /\ ~In("error", calls[c].value)
                                                /\ In("result", calls[c].value)}

\* a delivery status outside 200..299
NonSuccess(status) == status < 200 \/ status > 299

\* activation c received a body that passed validateRPCResponse
GotValid(c) ==
    /\ calls[c].parsed /\ calls[c].pc \in {"returned", "threw"}
    /\ calls[c].response.kind = "json"
    /\ ~validateRPCResponse(calls[c].response.body).threw

Done == pc = "done"

\* the message is a JSON object / a JSON array
SentObject == payload.kind = "text" /\ payload.value.t = "object"
SentArray  == payload.kind = "text" /\ payload.value.t = "array"

\* a field of the object that was sent
Sent(k) == Get(payload.value, k)
SentHas(k) == k \in DOMAIN payload.value.v

\* the reply has a Response body, and its parts
HasBody   == res.kind = "json"
Has(k)    == k \in DOMAIN res.body.v
ResError  == res.body.v["error"]
ErrHas(k) == k \in DOMAIN ResError.v
ErrCode(c) == ErrHas("code") /\ ResError.v["code"] = Num(c)

\* a registered handler ran and raised / returned
HandlerThrew    == invoked # "none" /\ env.outcome = "throws"
HandlerReturned == invoked # "none" /\ env.outcome = "returns"

\* the handler ran for the message
Handled == Done /\ env # NoEnv

\* the reply is an error Response whose data is the text d
ErrData(d) == HasBody /\ Has("error") /\ ErrHas("data") /\ ResError.v["data"] = Str(d)

\* jsonrpc "2.0", a method present, no id key
SentNotification ==
    SentObject /\ Sent("jsonrpc") = Str("2.0") /\ SentHas("method") /\ ~SentHas("id")

---------------------------------------------------------------------------
(* Properties *)

\* C1: a Notification (jsonrpc "2.0", method present, id key absent) is
\* answered with status 204 and no body, whether the handler returns or fails.
C1_NotificationNoBody ==
    (Done /\ SentNotification) => (res.status = 204 /\ res.kind = "empty")

C1_Witness ==
    Done /\ SentNotification /\ HandlerThrew /\ res.status = 204

\* C2: whenever a Call (a request object carrying an id) is answered with a
\* body, the Response's id equals the request's id, for results and errors.
C2_IdEchoed ==
    (Done /\ SentObject /\ SentHas("id") /\ HasBody)
        => (Has("id") /\ res.body.v["id"] = Sent("id"))

C2_Witness ==
    Done /\ SentObject /\ SentHas("id") /\ Sent("id") = Str("abc")
         /\ HasBody /\ Has("error") /\ res.body.v["id"] = Str("abc")

\* C3: every Response body carries exactly one of result and error, and an
\* error carries both a code and a message.
C3_ResultXorError ==
    (Done /\ HasBody)
        => /\ Has("result") # Has("error")
           /\ Has("error") => (ErrHas("code") /\ ErrHas("message"))

\* C4: when the registered handler of a Call raises, the answer is an error
\* Response with code -32603 whose data carries the handler's failure message.
C4_HandlerFaultIsInternalError ==
    (Done /\ HandlerThrew /\ SentHas("id"))
        => /\ HasBody /\ Has("error")
           /\ ErrCode(-32603)
           /\ ErrHas("data") /\ ResError.v["data"] = Get(HandlerFault, "message")

\* C5: every error Response carries a code that is one of -32700, -32600,
\* -32601, -32602, -32603.
C5_CodeInTaxonomy ==
    (Done /\ HasBody /\ Has("error"))
        => \E c \in {-32700, -32600, -32601, -32602, -32603} : ErrCode(c)

\* C6: a payload that cannot be parsed is answered with a ParseError
\* (-32700) Response with id null; a payload that parses but is not a single
\* object is answered with InvalidRequest (-32600).
C6_ParseErrorAnswered ==
    /\ (Done /\ payload.kind = "malformed")
          => (HasBody /\ Has("error") /\ ErrCode(-32700) /\ res.body.v["id"] = Null)
    /\ (Done /\ payload.kind = "text" /\ payload.value.t # "object")
          => (HasBody /\ Has("error") /\ ErrCode(-32600))

\* C7: a batch (an array, of any length) is rejected as a whole with one
\* InvalidRequest (-32600) Response with id null, and no element of it is
\* dispatched.
C7_BatchRejected ==
    (Done /\ SentArray)
        => /\ HasBody /\ Has("error") /\ ErrCode(-32600)
           /\ Has("id") /\ res.body.v["id"] = Null
           /\ replies = 1 /\ routed = 0 /\ invoked = "none"

C7_Witness ==
    Done /\ SentArray /\ Len(payload.value.v) = MaxBatch /\ res.status = 400

\* C8: every Response whose code is ParseError or InvalidRequest is delivered
\* with status 400, and every Response delivered with status 200 answers a
\* Call that passed all structural checks (object, version "2.0", method a
\* string) and carries a result or an error.
C8_StatusFollowsOutcome ==
    /\ (Done /\ HasBody /\ Has("error") /\ (ErrCode(-32700) \/ ErrCode(-32600)))
          => res.status = 400
    /\ (Done /\ HasBody /\ res.status = 200)
          => /\ SentObject /\ Sent("jsonrpc") = Str("2.0")
             /\ Typeof(Sent("method")) = "string" /\ SentHas("id")
             /\ (Has("result") \/ Has("error"))

\* C9: an object whose jsonrpc is not exactly "2.0" is answered with
\* InvalidRequest (-32600) whose id is the request's id when it has one and
\* null when it has none, and the method is not dispatched.
C9_BadVersionRejected ==
    (Done /\ SentObject /\ Sent("jsonrpc") # Str("2.0"))
        => /\ HasBody /\ Has("error") /\ ErrCode(-32600)
           /\ Has("id")
           /\ res.body.v["id"] = (IF SentHas("id") THEN Sent("id") ELSE Null)
           /\ routed = 0 /\ invoked = "none"

C9_Witness ==
    Done /\ SentObject /\ Sent("jsonrpc") = Num(2) /\ ~SentHas("id")
         /\ Sent("method") \in {Str(m) : m \in Registered}
         /\ HasBody /\ res.body.v["id"] = Null

\* C10: a structurally valid request whose id is present with the value null
\* is a Call: it is answered with a Response body whose id is null.
C10_NullIdIsCall ==
    (Done /\ SentObject /\ Sent("jsonrpc") = Str("2.0")
          /\ Typeof(Sent("method")) = "string" /\ SentHas("id") /\ Sent("id") = Null)
        => (HasBody /\ Has("id") /\ res.body.v["id"] = Null)

C10_Witness ==
    Done /\ SentObject /\ SentHas("id") /\ Sent("id") = Null
         /\ HandlerReturned /\ HasBody /\ Has("result")

\* C11: routeMethod on a string that names no registered method throws
\* MethodNotFound (-32601) whose data contains the name, and runs no handler.
C11_UnknownMethodNotFound ==
    (Dispatched /\ Typeof(DMethod) = "string" /\ DMethod.v \notin Registered)
        => /\ out.threw
           /\ Get(out.value, "code") = Num(-32601)
           /\ Typeof(Get(out.value, "data")) = "string"
           /\ Contains(Get(out.value, "data").v, DMethod.v)
           /\ out.handler = "none"

C11_Witness ==
    Dispatched /\ DMethod = Str("doesNotExist") /\ out.threw

\* C12: routeMethod on a method that is not a string (a number, null, an
\* object, an array, a boolean) throws InvalidRequest (-32600) and runs no
\* handler.
C12_NonStringMethodInvalid ==
    (Dispatched /\ Typeof(DMethod) # "string")
        => /\ out.threw
           /\ Get(out.value, "code") = Num(-32600)
           /\ out.handler = "none"

C12_Witness ==
    Dispatched /\ DMethod = Arr(<<Str("getCurrentTime")>>) /\ out.threw

\* C15: validateRPCResponse(r) succeeds exactly when r.jsonrpc is "2.0",
\* exactly one of the keys result and error is present, and an error that is
\* present has both code and message.
C15_ValidateIff ==
    Validated
        => (~out.threw <=>
               /\ Get(VArg, "jsonrpc") = Str("2.0")
               /\ In("result", VArg) # In("error", VArg)
               /\ In("error", VArg)
                     => (In("code", Get(VArg, "error")) /\ In("message", Get(VArg, "error"))))

\* C13: createRPCRequest(method, params, id) returns a request whose id is
\* the supplied id for every supplied number or string (0 and "" included),
\* with jsonrpc "2.0" and the given method and params.
C13_SuppliedIdKept ==
    \A i \in 1..Len(built) :
        Typeof(built[i].id) \in {"number", "string"}
            => /\ Get(built[i].request, "id") = built[i].id
               /\ Get(built[i].request, "jsonrpc") = Str("2.0")
               /\ Get(built[i].request, "method") = built[i].method
               /\ built[i].params # Undefined
                     => Get(built[i].request, "params") = built[i].params

\* C14: two requests built with the id left out have distinct ids, also
\* when no clock tick lies between the two builds.
C14_GeneratedIdsDistinct ==
    \A i, j \in 1..Len(built) :
        (i < j /\ built[i].id = Undefined /\ built[j].id = Undefined)
            => Get(built[i].request, "id") # Get(built[j].request, "id")

\* C16: at most one request is in flight at any time, and a callRPC made
\* while another call is in flight is refused at once and sends no request.
C16_SingleInFlight ==
    /\ Cardinality({c \in DOMAIN calls : InFlight(calls[c])}) <= 1
    /\ \A c \in DOMAIN calls :
          calls[c].busy => /\ calls[c].pc = "refused"
                           /\ calls[c].request = Undefined
                           /\ calls[c].response = NoRes

C16_Witness ==
    \E c, d \in DOMAIN calls :
        calls[c].pc = "reading" /\ calls[d].busy /\ calls[d].pc = "refused"

\* C17: a callRPC whose answer (status and body) is not completely received
\* when its timeout elapses is cancelled and fails with the timeout error;
\* no call is in flight after its timeout has elapsed.
C17_TimeoutCancels ==
    \A c \in DOMAIN calls :
        calls[c].expiredAt \in {"fetching", "reading"}
            => /\ calls[c].pc = "threw"
               /\ Get(calls[c].value, "name") = Str("AbortError")

\* C18: when the validated Response carries error, callRPC fails with an
\* error carrying its code and message; when it carries result, callRPC
\* returns the result.
C18_RpcErrorThrown ==
    \A c \in DOMAIN calls :
        GotValid(c) =>
            LET data == calls[c].response.body
            IN  IF In("error", data)
                THEN /\ calls[c].pc = "threw"
                     /\ Get(calls[c].value, "code") = Get(Get(data, "error"), "code")
                     /\ Get(calls[c].value, "message") = Get(Get(data, "error"), "message")
                ELSE /\ calls[c].pc = "returned"
                     /\ \/ calls[c].value = Get(data, "result")
                        \/ Get(calls[c].value, "result") = Get(data, "result")

\* C19: when fetch resolves with a status that is not a success, callRPC
\* throws an error whose message carries that status, the body is neither
\* parsed nor validated, and errorCount grows by one.
C19_TransportErrorThrown ==
    [][\A c \in DOMAIN calls :
          (calls[c].pc = "fetching" /\ calls'[c].response # NoRes
                /\ NonSuccess(calls'[c].response.status))
            => /\ calls'[c].pc = "threw"
               /\ Contains(Get(calls'[c].value, "message").v,
                           StringOf(calls'[c].response.status))
               /\ ~calls'[c].parsed
               /\ State'.errorCount = State.errorCount + 1]_vars

C19_Witness ==
    \E c \in DOMAIN calls :
        /\ calls[c].response.status = 500 /\ calls[c].pc = "threw"
        /\ State.errorCount >= 1

\* C20: when the first k-1 attempts of callRPCWithRetry throw and attempt k
\* (k <= maxRetries) returns, callRPCWithRetry returns what attempt k
\* returned, after exactly k attempts, and makes no further attempt.
C20_RetryReturnsFirstSuccess ==
    \A r \in Retryers : \A k \in Own(r) :
        (calls[k].pc = "returned" /\ \A j \in Own(r) : j < k => calls[j].pc = "threw")
            => /\ retry[r].pc = "returned"
               /\ retry[r].value = calls[k].value
               /\ \A j \in Own(r) : j <= k
               /\ retry[r].attempt = Cardinality(Own(r))
               /\ retry[r].attempt <= retry[r].maxRetries

C20_Witness ==
    \E r \in Retryers :
        /\ retry[r].pc = "returned" /\ retry[r].attempt = 2
        /\ \E j, k \in Own(r) : j < k /\ calls[j].pc = "threw" /\ calls[k].pc = "returned"
        /\ In("result", retry[r].value)

\* C22: a reply with status 500 carries an error Response with code -32603
\* and id null, and status 500 is sent only when a statement of the handler
\* outside the handler's own result-or-error outcome raised.
C22_Status500IsInternalError ==
    (Done /\ res.status = 500)
        => /\ HasBody /\ Has("error") /\ ~Has("result")
           /\ ErrCode(-32603)
           /\ Has("id") /\ res.body.v["id"] = Null
           /\ fault # "none"

C22_Witness ==
    Done /\ res.status = 500 /\ fault = "reply" /\ HandlerThrew
         /\ SentHas("id") /\ Sent("id") = Num(3) /\ res.body.v["id"] = Null

C24_BadMethodInvalidRequest ==
    (Done /\ SentObject /\ Sent("jsonrpc") = Str("2.0")
          /\ Typeof(Sent("method")) # "string")
        => (HasBody /\ Has("error") /\ ErrCode(-32600))

\* C25: a message that reaches the handler comes to exactly one outcome
\* (204 without a body, 200 or 400 or 500 with a Response): one reply is
\* sent for it, never two and never none.
C25_ExactlyOneReply ==
    /\ [](replies <= 1)
    /\ [](Handled => /\ replies = 1
                      /\ \/ res.status = 204 /\ res.kind = "empty"
                         \/ res.status \in {200, 400, 500} /\ HasBody)
    /\ ((pc = "route") ~> Done)

C25_Witness ==
    Handled /\ replies = 1 /\ res.status = 204 /\ SentNotification /\ routed = 1
            /\ invoked = "none"

\* C21: when every attempt of callRPCWithRetry throws, it makes exactly
\* maxRetries attempts and then throws an error that names maxRetries and
\* carries the message of the last attempt's error.
C21_RetryExhausted ==
    \A r \in Retryers :
        /\ (Cardinality(Own(r)) >= retry[r].maxRetries /\ Own(r) # {}
               /\ Failures(r) = Own(r))
              => /\ retry[r].pc = "threw"
                 /\ Cardinality(Own(r)) = retry[r].maxRetries
                 /\ Get(retry[r].value, "message") =
                        Str("Failed after " \o StringOf(retry[r].maxRetries)
                              \o " attempts: "
                              \o Get(calls[Latest(r)].value, "message").v)
        /\ (retry[r].pc = "threw" /\ retry[r].maxRetries >= 1)
              => (Failures(r) = Own(r) /\ Cardinality(Own(r)) = retry[r].maxRetries)

C21_Witness ==
    \E r \in Retryers :
        /\ retry[r].pc = "threw" /\ retry[r].maxRetries = 2
        /\ \E c, d \in Own(r) :
              /\ c < d
              /\ Get(calls[c].value, "message") = Str("Failed to fetch")
              /\ Get(calls[d].value, "name") = Str("AbortError")

\* C26: callRPCWithRetry goes on to another attempt after every
\* unsuccessful outcome of a call, a Response carrying an error included,
\* as long as attempts remain.
C26_RetriesEveryFailure ==
    \A r \in Retryers :
        (Own(r) # {} /\ Unsuccessful(Latest(r))
              /\ Cardinality(Own(r)) < retry[r].maxRetries)
            => retry[r].pc = "sleeping"

\* C27: one delay follows each failed attempt that is not the last, no
\* delay follows a successful attempt or the last failed one, and no
\* attempt starts while the delay after the previous failure is running.
C27_OneDelayBetweenAttempts ==
    \A r \in Retryers :
        /\ retry[r].sleeps =
              Cardinality({c \in Failures(r) : Nth(r, c) < retry[r].maxRetries})
        /\ retry[r].pc = "sleeping"
              => (calls[Latest(r)].pc = "threw" /\ Cardinality(Own(r)) = retry[r].sleeps)
        /\ (retry[r].pc # "sleeping" /\ Own(r) # {})
              => Cardinality(Own(r)) = retry[r].sleeps + 1

C27_Witness ==
    \E r \in Retryers :
        /\ retry[r].sleeps = 1 /\ retry[r].pc = "threw" /\ retry[r].maxRetries = 2
        /\ Cardinality(Failures(r)) = 2

\* C28: STATE.isLoading is true exactly while a callRPC is between its
\* start and its completion, and every completion of a callRPC leaves it
\* false.
C28_LoadingWhileInFlight ==
    /\ [](State.isLoading <=> \E c \in DOMAIN calls : InFlight(calls[c]))
    /\ [][\A c \in DOMAIN calls :
            (InFlight(calls[c]) /\ ~InFlight(calls'[c])) => ~State'.isLoading]_vars

C28_Witness ==
    /\ ~State.isLoading
    /\ \E c, d \in DOMAIN calls :
          /\ calls[c].pc = "threw" /\ Get(calls[c].value, "name") = Str("AbortError")
          /\ calls[d].pc = "returned" /\ In("error", calls[d].value)

\* C29: a callRPC that is refused because another call is in flight
\* changes nothing: STATE keeps all its values and the activations that
\* exist are as they were.
C29_RefusedChangesNothing ==
    [][\A c \in DOMAIN calls' :
          (c \notin DOMAIN calls /\ calls'[c].pc = "refused")
            => /\ State' = State
               /\ \A d \in DOMAIN calls : calls'[d] = calls[d]]_vars

C29_Witness ==
    \E c, d \in DOMAIN calls :
        /\ c < d /\ calls[c].pc = "fetching" /\ calls[d].pc = "refused"
        /\ State.totalRequests = 1 /\ State.isLoading

\* C30: callRPCWithRetry returns only if one of its own attempts sent a
\* request and received a valid Response.
C30_ReturnsOnlyAfterResponse ==
    \A r \in Retryers :
        retry[r].pc = "returned"
            => \E c \in Own(r) : /\ calls[c].request # Undefined
                                  /\ GotValid(c) /\ calls[c].pc = "returned"

\* C35: callRPCWithRetry called with maxRetries <= 0 makes no attempt and
\* fails with the retry-exhausted error that names the attempt count, as it
\* does for a positive maxRetries.
C35_NoAttemptsExhausted ==
    \A r \in Retryers :
        (retry[r].pc # "idle" /\ retry[r].maxRetries <= 0)
            => /\ Own(r) = {}
               /\ retry[r].pc = "threw"
               /\ Get(retry[r].value, "name") = Str("Error")
               /\ Contains(Get(retry[r].value, "message").v, "Failed after")

\* C32: every callRPC that sent a request and completed has appended exactly
\* one entry to requestHistory, marked successful when the Response carried
\* a result and unsuccessful in every other case.
C32_OneEntryPerCall ==
    LET h == State.requestHistory
    IN  /\ Len(h) = Cardinality(Completed)
        /\ Cardinality({i \in DOMAIN h : h[i].success}) = Cardinality(Succeeded)

\* C34: the timer armed by a callRPC touches only that call: when the timer
\* of a call that is over fires, no other call, STATE and no
\* callRPCWithRetry is changed; when it fires for a call that is waiting
\* for fetch, only that call is aborted.
C34_TimerAbortsOwnRequest ==
    [][\A c \in DOMAIN calls :
          (calls[c].timer = "armed" /\ calls'[c].timer = "fired")
            => /\ \A d \in DOMAIN calls \ {c} : calls'[d] = calls[d]
               /\ calls[c].pc # "fetching" => (State' = State /\ retry' = retry)]_vars

C34_Witness ==
    \E c, d \in DOMAIN calls :
        /\ c < d
        /\ calls[c].pc = "threw" /\ calls[c].timer = "fired"
        /\ calls[c].expiredAt = "threw"
        /\ calls[d].pc = "fetching" /\ calls[d].timer = "armed"

\* C31: successCount + errorCount <= totalRequests in every state, and
\* successCount + errorCount = totalRequests when no call is in flight.
C31_CountersAgree ==
    /\ State.successCount + State.errorCount <= State.totalRequests
    /\ (\A c \in DOMAIN calls : ~InFlight(calls[c]))
          => State.successCount + State.errorCount = State.totalRequests

\* C33: requestHistory never holds more than 50 entries; a new entry goes
\* to the end, and once 50 entries are held it evicts the oldest one, the
\* others keeping their order.
C33_HistoryKeepsLast50 ==
    LET after == State.requestHistory
    IN  /\ Len(after) <= 50
        /\ Logged =>
              /\ Len(after) >= 1
              /\ after[Len(after)].timestamp = ToISOString(LogTime)
              /\ IF Len(LogBefore) < 50
                 THEN SubSeq(after, 1, Len(after) - 1) = LogBefore
                 ELSE /\ Len(after) = 50
                      /\ SubSeq(after, 1, 49) = SubSeq(LogBefore, 2, 50)

C33_Witness ==
    /\ Logged /\ Len(LogBefore) = 50 /\ Len(State.requestHistory) = 50
    /\ LogBefore[1].timestamp # LogBefore[2].timestamp
    /\ State.requestHistory[1] = LogBefore[2]
    /\ State.requestHistory[50].timestamp = ToISOString(ClockStart + 1)

====
